---- MODULE Spec2Model ----
(***************************************************************************)
(* RouterImpl of ceresdb-client-rs (src/src/router.rs): a cache-aside      *)
(* router from table names to endpoints.  route() probes the DashMap      *)
(* cache, asks the RpcClient for the misses, fills the result and the      *)
(* cache from the response; evict() removes tables from the cache.         *)
(*                                                                         *)
(* Every DashMap operation (get / insert / remove) is one atomic step; a   *)
(* call is a sequence of such steps driven by its pc, with the single      *)
(* await point of route() (the rpc) between the probe loop and the fill    *)
(* loop.  The RpcClient is the environment: it answers a request with a    *)
(* failure or with any sequence of route entries.                          *)
(***************************************************************************)
EXTENDS Integers, Sequences, FiniteSets, TLC

\* ------------------------------------------------------------------ bounds
\* Longest `tables` argument of route() / evict().
MaxTables == 3
\* Longest `resp.routes` the RpcClient answers with.
MaxRoutes == 2
\* Longest `tables` argument when two callers run concurrently (SpecConc).
ConcTables == 1

\* ------------------------------------------------------------- value sets
\* Callers of the router; Spec runs the first one alone (sequential use).
Procs == {1, 2}
SeqProcs == {1}

Tables == {"t1", "t2"}
\* Endpoints the RpcClient can answer with.
Endpoints == {"e1", "e2"}
\* Option::None (an absent cache entry, a route entry without endpoint).
None == "None"
\* RouterImpl.default_endpoint, fixed at construction.
default_endpoint == "e0"

SeqsUpTo(S, n) == UNION {[1..k -> S] : k \in 0..n}

\* storage::Route of the response: a table and an optional endpoint.
Routes == [table : Tables, endpoint : Endpoints \cup {None}]
\* Failures of RpcClient::route.
RpcErrors == {"Transport", "Timeout"}

VARIABLES
    cache,      \* RouterImpl.cache : table -> endpoint, None when absent
    call,       \* per caller: the frame of its current / last call
    evicted     \* history: the endpoint evict() removed for a table, until
                \* the table is inserted again

vars == <<cache, call, evicted>>

\* ------------------------------------------------- pure parts of the code
\* Mutation of InitTargets: the result starts with empty slots.
InitTargetsNone(n) == [i \in 1..n |-> None]

\* vec![Some(self.default_endpoint.clone()); tables.len()]
InitTargets(n) == [i \in 1..n |-> default_endpoint]

\* Mutation of CacheGet: every probe misses.
CacheGetAlwaysMiss(c, table) == None

\* self.cache.get(table)
CacheGet(c, table) == c[table]

\* misses.insert(table.clone(), idx): a HashMap keyed by the table name, so
\* a repeated name keeps the index inserted last.  0 stands for no entry.
MissesInsert(misses, table, idx) == [misses EXCEPT ![table] = idx]

\* Mutation of MissesGet: an unknown table falls back to the first slot.
MissesGetOrFirst(misses, table) == IF misses[table] = 0 THEN 1 ELSE misses[table]

\* misses.get(&route.table)
MissesGet(misses, table) == misses[table]

\* Mutation of MissTables: every table is requested, cached or not.
MissTablesAll(misses) == Tables

\* misses.keys().cloned().collect()
MissTables(misses) == {t \in Tables : misses[t] # 0}

\* Mutation of CacheInsert: the default endpoint is cached instead.
CacheInsertDefault(c, table, endpoint) == [c EXCEPT ![table] = default_endpoint]

\* self.cache.insert(route.table, endpoint.clone())
CacheInsert(c, table, endpoint) == [c EXCEPT ![table] = endpoint]

\* Mutation of CacheRemove: the whole cache is cleared.
CacheRemoveAll(c, table) == [t \in Tables |-> None]

\* Mutation of CacheRemove: the entry stays.
CacheRemoveNothing(c, table) == c

\* self.cache.remove(e.as_str())
CacheRemove(c, table) == [c EXCEPT ![table] = None]

\* Mutation of AssertDatabase: the assertion is missing.
AssertNothing(database) == TRUE

\* assert!(ctx.database.is_some()): TRUE when the assertion passes.
AssertDatabase(database) == database

\* Mutation of EndpointIsNone: entries without endpoint are not skipped.
EndpointIsNoneNever(route) == FALSE

\* route.endpoint.is_none()
EndpointIsNone(route) == route.endpoint = None

\* route.endpoint.unwrap().into()
IntoEndpoint(route) == route.endpoint

\* Mutation of CacheReady: a caller keeps its map guard over the await of the
\* rpc, and the others wait for it.
CacheHeldOverAwait(p) == \A q \in Procs \ {p} : call[q].pc # "await"

\* A DashMap operation of caller p can proceed: the guard that get() returns
\* is dropped inside the match arm, insert() and remove() hold none after
\* they return, so no caller ever waits for another one's guard.
CacheReady(p) == TRUE

EmptyMisses == [t \in Tables |-> 0]
EmptyCache == [t \in Tables |-> None]

\* The frame of a caller that has not called yet.
IdleCall ==
    [op |-> "none", pc |-> "idle", tables |-> <<>>, database |-> TRUE,
     target_endpoints |-> <<>>, misses |-> EmptyMisses, idx |-> 1,
     req |-> {}, fetches |-> 0, rpc |-> "none", resp |-> <<>>,
     outcome |-> "none", result |-> <<>>,
     cache0 |-> EmptyCache, probed |-> <<>>, evicted0 |-> EmptyCache,
     raced |-> {}]

\* RouterImpl::new: an empty cache.
Init ==
    /\ cache = EmptyCache
    /\ call = [p \in Procs |-> IdleCall]
    /\ evicted = EmptyCache

Free(p) == call[p].pc \in {"idle", "done"}

\* ----------------------------------------------------------------- route
\* Entry of route(): assert!(ctx.database.is_some()) panics without a
\* database; otherwise the result vector is initialised.
RouteCall(p, tables, database) ==
    /\ Free(p)
    /\ call' = [call EXCEPT ![p] =
          [IdleCall EXCEPT
              !.op = "route",
              !.tables = tables,
              !.database = database,
              !.pc = IF AssertDatabase(database) THEN "probe" ELSE "done",
              !.outcome =
                  IF AssertDatabase(database) THEN "none" ELSE "InvalidContext",
              !.target_endpoints =
                  IF AssertDatabase(database)
                  THEN InitTargets(Len(tables)) ELSE <<>>,
              !.cache0 = cache,
              !.evicted0 = evicted]]
    /\ UNCHANGED <<cache, evicted>>

\* Mutation of Probe: a miss writes the default endpoint through to the cache.
ProbeWriteThrough(p) ==
    LET f == call[p]
        table == f.tables[f.idx]
        got == CacheGet(cache, table)
    IN  /\ f.pc = "probe"
        /\ f.idx <= Len(f.tables)
        /\ call' = [call EXCEPT ![p] =
              [f EXCEPT
                  !.target_endpoints =
                      IF got # None THEN [@ EXCEPT ![f.idx] = got] ELSE @,
                  !.misses =
                      IF got = None THEN MissesInsert(@, table, f.idx) ELSE @,
                  !.probed = Append(@, got),
                  !.idx = @ + 1]]
        /\ cache' = IF got = None
                    THEN CacheInsert(cache, table, default_endpoint)
                    ELSE cache
        /\ UNCHANGED evicted

\* One iteration of the probe loop: a hit fills the slot, a miss is recorded.
Probe(p) ==
    LET f == call[p]
        table == f.tables[f.idx]
        got == CacheGet(cache, table)
    IN  /\ f.pc = "probe"
        /\ f.idx <= Len(f.tables)
        /\ CacheReady(p)
        /\ call' = [call EXCEPT ![p] =
              [f EXCEPT
                  !.target_endpoints =
                      IF got # None THEN [@ EXCEPT ![f.idx] = got] ELSE @,
                  !.misses =
                      IF got = None THEN MissesInsert(@, table, f.idx) ELSE @,
                  !.probed = Append(@, got),
                  !.idx = @ + 1]]
        /\ UNCHANGED <<cache, evicted>>

\* Mutation of Fetch: tables another caller is already fetching are left out
\* of the request (single-flight).
FetchCoalescing(p) ==
    LET f == call[p]
        inflight == UNION {call[q].req : q \in
                              {q \in Procs \ {p} : call[q].pc = "await"}}
    IN  /\ f.pc = "probe"
        /\ f.idx > Len(f.tables)
        /\ call' = [call EXCEPT ![p] =
              [f EXCEPT
                  !.req = MissTables(f.misses) \ inflight,
                  !.fetches = @ + 1,
                  !.pc = "await"]]
        /\ UNCHANGED <<cache, evicted>>

\* After the loop: build the RouteRequest from the misses and send it.  The
\* request is sent whatever the misses are.
Fetch(p) ==
    LET f == call[p]
    IN  /\ f.pc = "probe"
        /\ f.idx > Len(f.tables)
        /\ call' = [call EXCEPT ![p] =
              [f EXCEPT
                  !.req = MissTables(f.misses),
                  !.fetches = @ + 1,
                  !.pc = "await"]]
        /\ UNCHANGED <<cache, evicted>>

\* The rpc answers Ok(resp).
FetchOk(p, routes) ==
    LET f == call[p]
    IN  /\ f.pc = "await"
        /\ call' = [call EXCEPT ![p] =
              [f EXCEPT !.rpc = "Ok", !.resp = routes, !.idx = 1,
                        !.pc = "fill"]]
        /\ UNCHANGED <<cache, evicted>>

\* Mutation of FetchErr: a failed rpc is sent again (once more at most).
FetchErrRetry(p, e) ==
    LET f == call[p]
    IN  /\ f.pc = "await"
        /\ f.fetches < 2
        /\ call' = [call EXCEPT ![p] = [f EXCEPT !.fetches = @ + 1]]
        /\ UNCHANGED <<cache, evicted>>

\* Mutation of FetchErr: the failure is swallowed and the slots filled so far
\* are returned.
FetchErrPartial(p, e) ==
    LET f == call[p]
    IN  /\ f.pc = "await"
        /\ call' = [call EXCEPT ![p] =
              [f EXCEPT !.rpc = e, !.outcome = "Ok",
                        !.result = f.target_endpoints, !.pc = "done"]]
        /\ UNCHANGED <<cache, evicted>>

\* The rpc answers Err(e): `?` returns it from route().
FetchErr(p, e) ==
    LET f == call[p]
    IN  /\ f.pc = "await"
        /\ call' = [call EXCEPT ![p] =
              [f EXCEPT !.rpc = e, !.outcome = e, !.result = <<>>,
                        !.pc = "done"]]
        /\ UNCHANGED <<cache, evicted>>

\* Mutation of Fill: an entry whose table was evicted while the call was in
\* flight is not cached.
FillUnlessRaced(p) ==
    LET f == call[p]
        route == f.resp[f.idx]
        idx == MissesGet(f.misses, route.table)
    IN  /\ f.pc = "fill"
        /\ f.idx <= Len(f.resp)
        /\ IF EndpointIsNone(route) \/ route.table \in f.raced
           THEN /\ call' = [call EXCEPT ![p] = [f EXCEPT !.idx = @ + 1]]
                /\ UNCHANGED <<cache, evicted>>
           ELSE IF idx = 0
           THEN /\ call' = [call EXCEPT ![p] =
                      [f EXCEPT !.outcome = "Unknown", !.result = <<>>,
                                !.pc = "done"]]
                /\ UNCHANGED <<cache, evicted>>
           ELSE /\ cache' = CacheInsert(cache, route.table, IntoEndpoint(route))
                /\ evicted' = [evicted EXCEPT ![route.table] = None]
                /\ call' = [call EXCEPT ![p] =
                      [f EXCEPT
                          !.target_endpoints =
                              [@ EXCEPT ![idx] = IntoEndpoint(route)],
                          !.idx = @ + 1]]

\* One iteration of the response loop.
Fill(p) ==
    LET f == call[p]
        route == f.resp[f.idx]
        idx == MissesGet(f.misses, route.table)
    IN  /\ f.pc = "fill"
        /\ f.idx <= Len(f.resp)
        /\ CacheReady(p)
        /\ IF EndpointIsNone(route)
           THEN /\ call' = [call EXCEPT ![p] = [f EXCEPT !.idx = @ + 1]]
                /\ UNCHANGED <<cache, evicted>>
           ELSE IF idx = 0
           THEN /\ call' = [call EXCEPT ![p] =
                      [f EXCEPT !.outcome = "Unknown", !.result = <<>>,
                                !.pc = "done"]]
                /\ UNCHANGED <<cache, evicted>>
           ELSE /\ cache' = CacheInsert(cache, route.table, IntoEndpoint(route))
                /\ evicted' = [evicted EXCEPT ![route.table] = None]
                /\ call' = [call EXCEPT ![p] =
                      [f EXCEPT
                          !.target_endpoints =
                              [@ EXCEPT ![idx] = IntoEndpoint(route)],
                          !.idx = @ + 1]]

\* Ok(target_endpoints)
Return(p) ==
    LET f == call[p]
    IN  /\ f.pc = "fill"
        /\ f.idx > Len(f.resp)
        /\ call' = [call EXCEPT ![p] =
              [f EXCEPT !.outcome = "Ok", !.result = f.target_endpoints,
                        !.pc = "done"]]
        /\ UNCHANGED <<cache, evicted>>

\* ----------------------------------------------------------------- evict
EvictCall(p, tables) ==
    /\ Free(p)
    /\ call' = [call EXCEPT ![p] =
          [IdleCall EXCEPT
              !.op = "evict", !.tables = tables, !.pc = "evict",
              !.cache0 = cache, !.evicted0 = evicted]]
    /\ UNCHANGED <<cache, evicted>>

\* Caller q is inside a route() call that recorded `table` as a miss and has
\* not received its response yet.
InFlightMiss(q, table) ==
    /\ call[q].op = "route"
    /\ call[q].pc \in {"probe", "await"}
    /\ call[q].misses[table] # 0

\* One iteration of tables.iter().for_each(remove).  History: the route()
\* calls in flight that had recorded the table as a miss note the removal in
\* `raced`.
EvictStep(p) ==
    LET f == call[p]
        table == f.tables[f.idx]
    IN  /\ f.pc = "evict"
        /\ f.idx <= Len(f.tables)
        /\ CacheReady(p)
        /\ cache' = CacheRemove(cache, table)
        /\ evicted' = IF cache[table] # None
                      THEN [evicted EXCEPT ![table] = cache[table]]
                      ELSE evicted
        /\ call' = [q \in Procs |->
              IF q = p THEN [f EXCEPT !.idx = @ + 1]
              ELSE IF InFlightMiss(q, table)
                   THEN [call[q] EXCEPT !.raced = @ \cup {table}]
                   ELSE call[q]]

EvictReturn(p) ==
    LET f == call[p]
    IN  /\ f.pc = "evict"
        /\ f.idx > Len(f.tables)
        /\ call' = [call EXCEPT ![p] = [f EXCEPT !.outcome = "Ok", !.pc = "done"]]
        /\ UNCHANGED <<cache, evicted>>

\* --------------------------------------------------------- specifications
Step(p) ==
    \/ \E tables \in SeqsUpTo(Tables, MaxTables), database \in BOOLEAN :
          RouteCall(p, tables, database)
    \/ Probe(p)
    \/ Fetch(p)
    \/ \E routes \in SeqsUpTo(Routes, MaxRoutes) : FetchOk(p, routes)
    \/ \E e \in RpcErrors : FetchErr(p, e)
    \/ Fill(p)
    \/ Return(p)
    \/ \E tables \in SeqsUpTo(Tables, MaxTables) : EvictCall(p, tables)
    \/ EvictStep(p)
    \/ EvictReturn(p)

\* One caller: calls never overlap.
Next == \E p \in SeqProcs : Step(p)

Spec == Init /\ [][Next]_vars

\* The concurrent callers contend for one table, and the RpcClient answers
\* them about that table.
ConcNames == {"t1"}
ConcRouteSet == [table : ConcNames, endpoint : Endpoints \cup {None}]
\* ... with at most one entry per table name.
ConcAnswers == SeqsUpTo(ConcRouteSet, Cardinality(ConcNames))

\* Two callers on a multi-threaded runtime: their steps interleave freely.
ConcStep(p) ==
    \/ \E tables \in SeqsUpTo(ConcNames, ConcTables), database \in BOOLEAN :
          RouteCall(p, tables, database)
    \/ Probe(p)
    \/ Fetch(p)
    \/ \E routes \in ConcAnswers : FetchOk(p, routes)
    \/ \E e \in RpcErrors : FetchErr(p, e)
    \/ Fill(p)
    \/ Return(p)
    \/ \E tables \in SeqsUpTo(ConcNames, ConcTables) : EvictCall(p, tables)
    \/ EvictStep(p)
    \/ EvictReturn(p)

NextConc == \E p \in Procs : ConcStep(p)

SpecConc == Init /\ [][NextConc]_vars

\* The steps caller p takes by itself: every step but the answer of the rpc.
Local(p) ==
    \/ Probe(p)
    \/ Fetch(p)
    \/ Fill(p)
    \/ Return(p)
    \/ EvictStep(p)
    \/ EvictReturn(p)

\* Which endpoint an answer carries does not matter to the progress of a
\* call: one endpoint, or none.
LiveAnswers ==
    SeqsUpTo([table : ConcNames, endpoint : {"e1", None}], Cardinality(ConcNames))

\* The rpc of caller p answers.
Answer(p) ==
    \/ \E routes \in LiveAnswers : FetchOk(p, routes)
    \/ \E e \in RpcErrors : FetchErr(p, e)

\* The steps of two concurrent callers whose rpc answers from LiveAnswers.
LiveStep(p) ==
    \/ \E tables \in SeqsUpTo(ConcNames, ConcTables), database \in BOOLEAN :
          RouteCall(p, tables, database)
    \/ \E tables \in SeqsUpTo(ConcNames, ConcTables) : EvictCall(p, tables)
    \/ Local(p)
    \/ Answer(p)

NextLive == \E p \in Procs : LiveStep(p)

\* The runtime keeps running every caller, and every rpc answers.
SpecLive ==
    /\ Init
    /\ [][NextLive]_vars
    /\ \A p \in Procs : WF_vars(Local(p)) /\ WF_vars(Answer(p))

\* ------------------------------------------------ vocabulary of the claims
Frame(p) == call[p]

\* A route() call that passed the assertion and finished its probe loop.
Probed(p) ==
    /\ Frame(p).op = "route"
    /\ Frame(p).database
    /\ Len(Frame(p).probed) = Len(Frame(p).tables)

\* A route() call that returned Ok(target_endpoints).
Succeeded(p) ==
    /\ Frame(p).op = "route"
    /\ Frame(p).pc = "done"
    /\ Frame(p).outcome = "Ok"

\* The endpoints the response of p's call carries for table t.
Answers(p, t) ==
    {Frame(p).resp[k].endpoint : k \in
        {k \in 1..Len(Frame(p).resp) :
            /\ Frame(p).resp[k].table = t
            /\ Frame(p).resp[k].endpoint # None}}

\* The positions of p's input that hold table t.
Positions(p, t) == {i \in 1..Len(Frame(p).tables) : Frame(p).tables[i] = t}

\* -------------------------------------------------------------------- C1
\* C1: a route() call over a non-empty input whose tables all hit the cache
\* at probe time issues no fetch.
C1_AllHitIssuesNoFetch ==
    \A p \in Procs :
        ( /\ Probed(p)
          /\ Len(Frame(p).tables) >= 1
          /\ \A i \in 1..Len(Frame(p).probed) : Frame(p).probed[i] # None )
        => Frame(p).fetches = 0

\* -------------------------------------------------------------------- C2
\* C2: when a table that misses the cache occurs at several positions of the
\* input and the response carries the endpoint E for it, every one of those
\* positions of the result holds E, and the table is in the request.
C2_RepeatedMissFilledEverywhere ==
    \A p \in Procs : \A t \in Tables : \A E \in Endpoints :
        ( /\ Succeeded(p)
          /\ Cardinality(Positions(p, t)) >= 2
          /\ \A i \in Positions(p, t) : Frame(p).probed[i] = None
          /\ Answers(p, t) = {E} )
        => /\ t \in Frame(p).req
           /\ \A i \in Positions(p, t) : Frame(p).result[i] = E

\* -------------------------------------------------------------------- C3
\* What slot i of a successful call may hold according to the claim: the
\* endpoint cached at probe time, else an endpoint the response carries for
\* tables[i], else the default endpoint.
Expected(p, i) ==
    IF Frame(p).probed[i] # None THEN {Frame(p).probed[i]}
    ELSE IF Answers(p, Frame(p).tables[i]) # {}
         THEN Answers(p, Frame(p).tables[i])
         ELSE {default_endpoint}

\* C3: the result of a successful route(tables, ctx) has len(tables) slots
\* and slot i answers tables[i]: cached endpoint, else fetched endpoint,
\* else default.
C3_SlotAnswersItsTable ==
    \A p \in Procs :
        Succeeded(p) =>
            /\ Len(Frame(p).result) = Len(Frame(p).tables)
            /\ \A i \in 1..Len(Frame(p).tables) :
                  Frame(p).result[i] \in Expected(p, i)

\* -------------------------------------------------------------------- C4
\* C4: every slot of the result of a successful route() is Some, and a table
\* that is neither cached nor given an endpoint by the response gets the
\* default endpoint.
C4_EverySlotSome ==
    \A p \in Procs :
        Succeeded(p) =>
            /\ Len(Frame(p).result) = Len(Frame(p).tables)
            /\ \A i \in 1..Len(Frame(p).result) :
                  /\ Frame(p).result[i] # None
                  /\ ( /\ Frame(p).probed[i] = None
                       /\ Answers(p, Frame(p).tables[i]) = {} )
                     => Frame(p).result[i] = default_endpoint

\* A successful call with a slot whose table was not cached and came back
\* without endpoint, and another slot whose table has no entry at all.
C4_Witness ==
    \E p \in Procs : \E i, j \in 1..Len(Frame(p).tables) :
        /\ Succeeded(p)
        /\ Frame(p).tables[i] # Frame(p).tables[j]
        /\ Frame(p).probed[i] = None
        /\ Frame(p).probed[j] = None
        /\ [table |-> Frame(p).tables[i], endpoint |-> None]
              \in {Frame(p).resp[k] : k \in 1..Len(Frame(p).resp)}
        /\ \A k \in 1..Len(Frame(p).resp) :
              Frame(p).resp[k].table # Frame(p).tables[j]
        /\ Frame(p).result[i] = default_endpoint
        /\ Frame(p).result[j] = default_endpoint

\* -------------------------------------------------------------------- C5
\* The endpoint of the last entry of p's response that carries one for t.
LastAnswer(p, t) ==
    LET ks == {k \in 1..Len(Frame(p).resp) :
                  /\ Frame(p).resp[k].table = t
                  /\ Frame(p).resp[k].endpoint # None}
    IN  Frame(p).resp[CHOOSE k \in ks : \A m \in ks : m <= k].endpoint

\* p's call is route([t], ctx) with a database, started when t had been
\* removed by evict() and not cached again since.
RouteAfterEvict(p, t) ==
    /\ Frame(p).op = "route"
    /\ Frame(p).database
    /\ Frame(p).tables = <<t>>
    /\ Frame(p).evicted0[t] # None

\* C5: after evict([t]), the next route([t], ctx) sends a fetch whose request
\* contains t; when it succeeds with an endpoint for t in the response, it
\* returns that endpoint and leaves it in the cache.
C5_RouteAfterEvictRefetches ==
    \A p \in Procs : \A t \in Tables :
        RouteAfterEvict(p, t) =>
            /\ Frame(p).pc \in {"await", "fill", "done"}
                  => (Frame(p).fetches = 1 /\ t \in Frame(p).req)
            /\ (Succeeded(p) /\ Answers(p, t) # {})
                  => /\ Frame(p).result = <<LastAnswer(p, t)>>
                     /\ cache[t] = LastAnswer(p, t)

\* t was cached as e1, evicted, and the next route([t]) returned and cached
\* the e2 of the response.
C5_Witness ==
    \E p \in Procs : \E t \in Tables :
        /\ RouteAfterEvict(p, t)
        /\ Succeeded(p)
        /\ Frame(p).evicted0[t] = "e1"
        /\ Frame(p).fetches = 1
        /\ t \in Frame(p).req
        /\ Frame(p).result = <<"e2">>
        /\ cache[t] = "e2"

\* -------------------------------------------------------------------- C6
\* All entries of p's response for table t, and there is one, are without
\* endpoint.
OnlyNoneFor(p, t) ==
    /\ \E k \in 1..Len(Frame(p).resp) : Frame(p).resp[k].table = t
    /\ Answers(p, t) = {}

\* C6: a response whose entries for t carry no endpoint leaves the cache
\* entry of t as it was, and the slots of a missing t at the default.
C6_NoneEntryLeavesCache ==
    \A p \in Procs : \A t \in Tables :
        ( /\ Frame(p).op = "route"
          /\ Frame(p).pc = "done"
          /\ Frame(p).rpc = "Ok"
          /\ OnlyNoneFor(p, t) )
        => /\ cache[t] = Frame(p).cache0[t]
           /\ Succeeded(p) =>
                 \A i \in Positions(p, t) :
                     Frame(p).probed[i] = None
                         => Frame(p).result[i] = default_endpoint

\* A missing t answered without endpoint next to a table answered with one:
\* t is still absent and its slot is the default.
C6_Witness ==
    \E p \in Procs : \E t \in Tables : \E i \in 1..Len(Frame(p).tables) :
        /\ Succeeded(p)
        /\ OnlyNoneFor(p, t)
        /\ Frame(p).tables[i] = t
        /\ Frame(p).probed[i] = None
        /\ t \in Frame(p).req
        /\ cache[t] = None
        /\ Frame(p).result[i] = default_endpoint
        /\ \E u \in Tables : cache[u] # None /\ Frame(p).cache0[u] = None

\* -------------------------------------------------------------------- C7
\* The tables an evict() call lists.
Listed(p) == {Frame(p).tables[i] : i \in 1..Len(Frame(p).tables)}

\* C7: an entry t -> E that is in the cache when a call starts stays there
\* through a route() call, which returns E at every position of t whatever
\* the response says, and through an evict() that does not list t.
C7_CachedEntryPersists ==
    \A p \in Procs : \A t \in Tables :
        Frame(p).cache0[t] # None =>
            /\ (Frame(p).op = "route")
                  => /\ cache[t] = Frame(p).cache0[t]
                     /\ Succeeded(p) =>
                           \A i \in Positions(p, t) :
                               Frame(p).result[i] = Frame(p).cache0[t]
            /\ (Frame(p).op = "evict" /\ t \notin Listed(p))
                  => cache[t] = Frame(p).cache0[t]

\* t is cached as e1; a later route() over t and a missing table, whose
\* response brings e2, still returns e1 for t.
C7_Witness ==
    \E p \in Procs : \E t \in Tables : \E i, j \in 1..Len(Frame(p).tables) :
        /\ Succeeded(p)
        /\ Frame(p).cache0[t] = "e1"
        /\ Frame(p).tables[i] = t
        /\ Frame(p).result[i] = "e1"
        /\ Frame(p).tables[j] # t
        /\ Frame(p).result[j] = "e2"
        /\ Frame(p).fetches = 1
        /\ cache[t] = "e1"

\* -------------------------------------------------------------------- C8
\* p's call processed a response: it returned Ok or failed in the loop.
Processed(p) ==
    /\ Frame(p).op = "route"
    /\ Frame(p).pc = "done"
    /\ Frame(p).rpc = "Ok"

\* C8 as stated: a response with an entry for a table outside the miss set,
\* with or without endpoint, makes route() fail with Unknown (the
\* UnexpectedRouteEntry failure).
C8_AnyUnexpectedEntryFails ==
    \A p \in Procs :
        ( /\ Processed(p)
          /\ \E k \in 1..Len(Frame(p).resp) :
                Frame(p).resp[k].table \notin Frame(p).req )
        => Frame(p).outcome = "Unknown"

\* C8 amended: route() fails with Unknown exactly when the response has an
\* entry that carries an endpoint for a table outside the miss set; an entry
\* without endpoint is skipped whatever its table.
C8_UnexpectedEndpointFails ==
    \A p \in Procs :
        Processed(p) =>
            ( Frame(p).outcome = "Unknown"
              <=> \E k \in 1..Len(Frame(p).resp) :
                     /\ Frame(p).resp[k].table \notin Frame(p).req
                     /\ Frame(p).resp[k].endpoint # None )

\* A call with misses failed on an entry that carries an endpoint for a table
\* it did not request.
C8_Witness ==
    \E p \in Procs : \E k \in 1..Len(Frame(p).resp) :
        /\ Processed(p)
        /\ Frame(p).outcome = "Unknown"
        /\ Frame(p).req # {}
        /\ Frame(p).resp[k].table \notin Frame(p).req
        /\ Frame(p).resp[k].endpoint # None

\* -------------------------------------------------------------------- C9
\* C9: when the rpc fails, route() returns that failure, no endpoints, and
\* the cache is as it was when the call started.
C9_FetchFailurePropagates ==
    \A p \in Procs :
        ( /\ Frame(p).op = "route"
          /\ Frame(p).pc = "done"
          /\ Frame(p).rpc \in RpcErrors )
        => /\ Frame(p).outcome = Frame(p).rpc
           /\ Frame(p).result = <<>>
           /\ cache = Frame(p).cache0

\* A call with a hit and a miss whose rpc timed out: the hit is not returned.
C9_Witness ==
    \E p \in Procs : \E i, j \in 1..Len(Frame(p).tables) :
        /\ Frame(p).op = "route"
        /\ Frame(p).pc = "done"
        /\ Frame(p).rpc = "Timeout"
        /\ Frame(p).outcome = "Timeout"
        /\ Frame(p).probed[i] # None
        /\ Frame(p).probed[j] = None
        /\ Frame(p).result = <<>>
        /\ cache = Frame(p).cache0

\* ------------------------------------------------------------------- C10
\* C10: route() with a context without database fails at once with the
\* InvalidContext condition (the assertion): no probe, no fetch, no result,
\* the cache as it was.
C10_NoDatabaseFailsAtOnce ==
    \A p \in Procs :
        (Frame(p).op = "route" /\ ~Frame(p).database)
        => /\ Frame(p).pc = "done"
           /\ Frame(p).outcome = "InvalidContext"
           /\ Frame(p).probed = <<>>
           /\ Frame(p).fetches = 0
           /\ Frame(p).result = <<>>
           /\ cache = Frame(p).cache0

\* The call without database was over tables that are all cached.
C10_Witness ==
    \E p \in Procs :
        /\ Frame(p).op = "route"
        /\ ~Frame(p).database
        /\ Frame(p).outcome = "InvalidContext"
        /\ Len(Frame(p).tables) >= 2
        /\ \A i \in 1..Len(Frame(p).tables) : cache[Frame(p).tables[i]] # None

\* ------------------------------------------------------------------- C11
\* C11: a route() call issues at most one fetch, whatever misses and whatever
\* the rpc answers.
C11_AtMostOneFetch ==
    \A p \in Procs :
        /\ Frame(p).fetches <= 1
        /\ (Frame(p).op = "route" /\ Frame(p).pc \in {"fill", "done"}
                /\ Frame(p).database)
              => Frame(p).fetches = 1

\* A call with two missing tables whose rpc failed made one fetch.
C11_Witness ==
    \E p \in Procs :
        /\ Frame(p).op = "route"
        /\ Frame(p).pc = "done"
        /\ Cardinality(Frame(p).req) >= 2
        /\ Frame(p).rpc \in RpcErrors
        /\ Frame(p).fetches = 1

\* ------------------------------------------------------------------- C12
\* The tables of p's input that missed the cache when they were probed.
MissedAtProbe(p) ==
    {Frame(p).tables[i] : i \in
        {i \in 1..Len(Frame(p).probed) : Frame(p).probed[i] = None}}

\* C12: the request of a route() call holds exactly the tables that missed
\* the cache at probe time.
C12_RequestIsTheMisses ==
    \A p \in Procs :
        (Frame(p).op = "route" /\ Frame(p).pc \in {"await", "fill", "done"}
            /\ Frame(p).database)
        => Frame(p).req = MissedAtProbe(p)

\* A request over an input with a hit and a miss at two positions: the hit
\* is not requested, the miss is.
C12_Witness ==
    \E p \in Procs : \E i, j, k \in 1..Len(Frame(p).tables) :
        /\ Frame(p).op = "route"
        /\ Frame(p).pc = "await"
        /\ Frame(p).probed[i] # None
        /\ j # k
        /\ Frame(p).tables[j] = Frame(p).tables[k]
        /\ Frame(p).probed[j] = None
        /\ Frame(p).req = {Frame(p).tables[j]}

\* ------------------------------------------------------------------- C13
\* C13: evict(tables) leaves the cache without the listed tables and with
\* every other entry as it was, sends no fetch, and changes nothing when no
\* listed table is cached (as after a first evict of the same list).
C13_EvictRemovesListedOnly ==
    \A p \in Procs :
        Frame(p).op = "evict" =>
            /\ Frame(p).fetches = 0
            /\ \A t \in Tables \ Listed(p) : cache[t] = Frame(p).cache0[t]
            /\ Frame(p).pc = "done" =>
                  /\ \A t \in Listed(p) : cache[t] = None
                  /\ (\A t \in Listed(p) : Frame(p).cache0[t] = None)
                        => cache = Frame(p).cache0

\* evict([t, t]) with t and u cached: t is removed (its second removal finds
\* it absent), u stays.
C13_Witness ==
    \E p \in Procs : \E t, u \in Tables :
        /\ Frame(p).op = "evict"
        /\ Frame(p).pc = "done"
        /\ Frame(p).tables = <<t, t>>
        /\ u # t
        /\ Frame(p).cache0[t] # None
        /\ Frame(p).cache0[u] # None
        /\ cache[t] = None
        /\ cache[u] = Frame(p).cache0[u]

\* ------------------------------------------------------------------- C14
\* Caller p takes this step.
Acts(p) == call'[p].pc # call[p].pc \/ call'[p].idx # call[p].idx

\* C14: in a route() call every probe comes before the fetch is sent, and
\* every cache write comes after the fetch has answered.
C14_ProbeFetchWriteOrder ==
    [][\A p \in Procs :
          /\ Len(call'[p].probed) > Len(call[p].probed)
                => (call[p].fetches = 0 /\ call'[p].fetches = 0)
          /\ (Acts(p) /\ call[p].op = "route" /\ call[p].pc # "done"
                /\ cache' # cache)
                => (call[p].fetches = 1 /\ call[p].rpc = "Ok")]_vars

\* A call that probed three times, fetched, and wrote the cache.
C14_Witness ==
    \E p \in Procs :
        /\ Succeeded(p)
        /\ Len(Frame(p).probed) = 3
        /\ Frame(p).fetches = 1
        /\ cache # Frame(p).cache0

\* ------------------------------------------------------------------- C15
\* p's route() call has sent its request.
Sent(p) ==
    /\ Frame(p).op = "route"
    /\ Frame(p).database
    /\ Frame(p).pc \in {"await", "fill", "done"}

\* C15: two route() calls that both missed t at probe time each send their
\* own fetch with t in it.
C15_NoSingleFlight ==
    \A p, q \in Procs : \A t \in Tables :
        ( /\ p # q
          /\ Sent(p) /\ Sent(q)
          /\ t \in MissedAtProbe(p) \cap MissedAtProbe(q) )
        => /\ Frame(p).fetches = 1 /\ t \in Frame(p).req
           /\ Frame(q).fetches = 1 /\ t \in Frame(q).req

\* Both calls wait for their own rpc over t at the same time.
C15_Witness ==
    \E p, q \in Procs : \E t \in Tables :
        /\ p # q
        /\ Frame(p).pc = "await" /\ Frame(q).pc = "await"
        /\ t \in Frame(p).req \cap Frame(q).req
        /\ Frame(p).fetches = 1 /\ Frame(q).fetches = 1
        /\ cache[t] = None

\* ------------------------------------------------------------------- C16
\* p's route() call has processed a response entry that carries an endpoint
\* for its miss t.
Wrote(p, t) ==
    /\ Frame(p).op = "route"
    /\ Frame(p).rpc = "Ok"
    /\ Frame(p).misses[t] # 0
    /\ \E k \in 1..(Frame(p).idx - 1) :
          /\ k <= Len(Frame(p).resp)
          /\ Frame(p).resp[k].table = t
          /\ Frame(p).resp[k].endpoint # None

\* C16: once a route() call that missed t and an evict() listing t have both
\* finished, the cache holds the fetched endpoint for t or nothing; and an
\* evict of t while the call was in flight does not stop the call from
\* caching: after its write the entry is there until a later removal.
C16_RouteEvictRace ==
    \A p \in Procs : \A t \in Tables :
        /\ \A q \in Procs \ {p} :
              ( /\ Succeeded(p)
                /\ t \in MissedAtProbe(p)
                /\ Answers(p, t) # {}
                /\ Frame(q).op = "evict"
                /\ Frame(q).pc = "done"
                /\ t \in Listed(q) )
              => cache[t] \in {LastAnswer(p, t), None}
        /\ (Wrote(p, t) /\ t \in Frame(p).raced /\ evicted[t] = None)
              => cache[t] # None

\* evict([t]) ran between the probe and the write of p's call, and the cache
\* holds what p fetched.
C16_Witness ==
    \E p, q \in Procs : \E t \in Tables :
        /\ p # q
        /\ Succeeded(p)
        /\ Frame(p).tables = <<t>>
        /\ t \in Frame(p).raced
        /\ Answers(p, t) # {}
        /\ Frame(p).result = <<LastAnswer(p, t)>>
        /\ cache[t] = LastAnswer(p, t)
        /\ Frame(q).op = "evict"
        /\ Frame(q).pc = "done"
        /\ Frame(q).tables = <<t>>

\* ------------------------------------------------------------------- C17
\* C17: the cache changes only in two ways: a response-loop step of a
\* route() call writes, for a table of its misses, the endpoint its current
\* response entry carries (never the default endpoint); an evict() step
\* removes the table it is at.
C17_CacheProvenance ==
    [][\A t \in Tables :
          cache'[t] # cache[t] =>
             IF cache'[t] = None
             THEN \E p \in Procs :
                     /\ Acts(p)
                     /\ call[p].pc = "evict"
                     /\ call[p].idx <= Len(call[p].tables)
                     /\ call[p].tables[call[p].idx] = t
             ELSE /\ cache'[t] # default_endpoint
                  /\ \E p \in Procs :
                        /\ Acts(p)
                        /\ call[p].pc = "fill"
                        /\ call[p].idx <= Len(call[p].resp)
                        /\ call[p].misses[t] # 0
                        /\ call[p].resp[call[p].idx] =
                              [table |-> t, endpoint |-> cache'[t]]]_vars

\* Two calls both fetched t; the entry of the first was overwritten by the
\* second.
C17_Witness ==
    \E p, q \in Procs : \E t \in Tables :
        /\ p # q
        /\ Succeeded(p) /\ Succeeded(q)
        /\ Wrote(p, t) /\ Wrote(q, t)
        /\ Frame(p).result = <<"e1">>
        /\ Frame(q).result = <<"e2">>
        /\ cache[t] = "e2"

\* ------------------------------------------------------------------- C18
\* C18: a route() call that failed left the cache as it was when it started.
C18_FailedCallLeavesCache ==
    \A p \in Procs :
        ( /\ Frame(p).op = "route"
          /\ Frame(p).pc = "done"
          /\ Frame(p).outcome # "Ok" )
        => cache = Frame(p).cache0

\* ------------------------------------------------------------------- C19
\* Caller p is inside a call.
Busy(p) == Frame(p).pc \notin {"idle", "done"}

\* C19: a caller waits only at the rpc (every other step of a call can be
\* taken whatever the other caller does), and every call comes to its end.
C19_CallsComplete ==
    /\ [](\A p \in Procs :
            (Busy(p) /\ Frame(p).pc # "await") => ENABLED Local(p))
    /\ \A p \in Procs : Busy(p) ~> (Frame(p).pc = "done")

\* A route() call ended while the other caller was still waiting for its rpc.
C19_Witness ==
    \E p, q \in Procs :
        /\ p # q
        /\ Succeeded(p)
        /\ Frame(p).fetches = 1
        /\ Frame(q).pc = "await"
        /\ Frame(p).req \cap Frame(q).req # {}

====
